---- MODULE Spec2Model ----
(***************************************************************************)
(* The RAG tool-selection path of MetaMCP: the list-tools middleware       *)
(* (createRAGListToolsMiddleware) on top of the RAG client (RAGClient:     *)
(* isHealthy with its 30 s health cache, selectTools with its fallback).   *)
(* Several list-tools requests run concurrently on one event loop: the     *)
(* code between two awaits is one atomic step, the awaits on the network   *)
(* (/health, /select-tools) are where requests interleave.  The relevance  *)
(* service is outside the repository: its answers are nondeterministic.    *)
(***************************************************************************)
EXTENDS Integers, Sequences, FiniteSets, TLC

VARIABLES
    config,           \* RAGClient.config (enabled, fallbackOnError, defaultLimit)
    catalog,          \* the tools the wrapped list handler returns (the backends' tools)
    mwConfig,         \* RAGToolsConfig of the middleware (enabled, maxTools, fallbackOnError)
    healthyCache,     \* RAGClient.healthyCache: "null", "true" or "false"
    lastHealthCheck,  \* RAGClient.lastHealthCheck
    now,              \* Date.now()
    calls,            \* the list-tools calls in flight, one slot per concurrent request
    requests,         \* number of list-tools requests started so far
    last,             \* what the latest step did: the request whose intent it
                      \* extracted, the call it completed as its caller saw it
    history,          \* which of the history variables below is recorded
    failStreak,       \* history: consecutive failed /select-tools queries (capped)
    streakAt,         \* history: Date.now() at the latest failed /select-tools query
    recoveredAt,      \* history: timestamp recorded by the latest probe that succeeded
                      \*          while the cache said "down" (<<>> if none)
    previous,         \* history: the first list-tools answer that came out of
                      \*          ragClient.selectTools (<<>> if none)
    failedAt          \* history: timestamp recorded by the latest probe that
                      \*          failed (<<>> if none)

vars == <<config, mwConfig, catalog, healthyCache, lastHealthCheck, now, calls, requests,
          last, history, failStreak, streakAt, recoveredAt, previous, failedAt>>

----------------------------------------------------------------------------
(* Bounds of the model *)

MaxRequests == 4
MaxTicks == 2
MaxSel == 2
CircuitThreshold == 2
MaxRepeats == 2

(* Program constants *)

HEALTH_CACHE_DURATION == 30000
defaultLimit == 10
DefaultMaxTools == 10
timeout == 5000

\* the clock advances by half a cache window
TickStep == HEALTH_CACHE_DURATION \div 2

\* slots for the requests in flight; a new request takes the first free one
Procs == {1, 2}

----------------------------------------------------------------------------
(* Tools, catalogs, requests *)

Tool(n, b) == [name |-> n, backend |-> b]

\* catalogs the wrapped list handler can return: empty, one with two entries of
\* the same name, one of exactly the default maxTools and one above it
BigCatalog(n) == [i \in 1..n |-> Tool(i, "a")]

Catalogs ==
    { <<>>,
      <<Tool(2, "a"), Tool(1, "a"), Tool(1, "b")>>,
      BigCatalog(DefaultMaxTools),
      BigCatalog(DefaultMaxTools + 1) }

\* names the relevance service may put in selected_tools; 0 names no tool of any catalog
ServiceNames == {0, 1, 2}

SelectedLists == UNION { [1..n -> ServiceNames] : n \in 0..MaxSel }

\* an optional field: <<>> when absent, <<v>> when present
Absent == <<>>

Truthy(opt) == opt # Absent /\ opt[1] # ""

\* request.params.name, request.params.query, context.sessionId,
\* context.namespaceUuid
Requests ==
    [ name : {Absent, <<"">>, <<"read_file">>, <<"search">>},
      query : {Absent, <<"">>, <<"convert pdf">>, <<"list a directory">>},
      sessionId : {Absent, <<"">>, <<"s-1">>},
      namespaceUuid : {Absent, <<"">>, <<"ns-1">>} ]

\* the list-tools requests of the request path
ListRequests ==
    { r \in Requests : /\ r.name \in {Absent, <<"read_file">>}
                       /\ r.query \in {Absent, <<"convert pdf">>}
                       /\ r.name # Absent => r.query # Absent
                       /\ r.sessionId = Absent
                       /\ r.namespaceUuid = Absent }

Range(s) == { s[i] : i \in 1..Len(s) }

Names(tools) == [i \in 1..Len(tools) |-> tools[i].name]

Min(a, b) == IF a <= b THEN a ELSE b

----------------------------------------------------------------------------
(* Pure helpers of the code *)

\* slice(1, n) in place of slice(0, n)
Slice_FromSecond(tools, n) == SubSeq(tools, 2, Min(n, Len(tools)))

\* Array.prototype.slice(0, n) for n >= 0
Slice(tools, n) == SubSeq(tools, 1, Min(n, Len(tools)))

\* what splice(0, n) would leave in the array
ArrayAfterSplice(tools, n) == SubSeq(tools, Min(n, Len(tools)) + 1, Len(tools))

\* what slice(0, n) leaves in the array it is called on: slice copies
ArrayAfterSlice(tools, n) == tools

\* limit ?? this.config.defaultLimit
ActualLimit(limit) == IF limit = Absent THEN config.defaultLimit ELSE limit[1]

\* the query hint tested before the tool name
extractUserIntent_QueryFirst(req) ==
    IF Truthy(req.query) THEN req.query[1]
    ELSE IF Truthy(req.name) THEN "Find tools related to: " \o req.name[1]
    ELSE IF Truthy(req.namespaceUuid) THEN "Select tools for current namespace workflow"
    ELSE "Select the most commonly used and essential tools"

\* extractUserIntentFromContext: name, then query, then namespace, then default
extractUserIntentFromContext(req) ==
    IF Truthy(req.name) THEN "Find tools related to: " \o req.name[1]
    ELSE IF Truthy(req.query) THEN req.query[1]
    ELSE IF Truthy(req.namespaceUuid) THEN "Select tools for current namespace workflow"
    ELSE "Select the most commonly used and essential tools"

\* the window tested with <= in place of <
CacheIsRecent_Inclusive(t) ==
    healthyCache # "null" /\ (t - lastHealthCheck) <= HEALTH_CACHE_DURATION

\* only an unhealthy result served from the cache
CacheIsRecent_OnlyWhenDown(t) ==
    healthyCache = "false" /\ (t - lastHealthCheck) < HEALTH_CACHE_DURATION

\* only a healthy result served from the cache
CacheIsRecent_OnlyWhenUp(t) ==
    healthyCache = "true" /\ (t - lastHealthCheck) < HEALTH_CACHE_DURATION

\* isHealthy: "use cached result if recent"
CacheIsRecent(t) ==
    healthyCache # "null" /\ (t - lastHealthCheck) < HEALTH_CACHE_DURATION

\* a name that matches no tool yields a tool made from the name
Find_Fabricates(tools, toolName) ==
    IF \E i \in 1..Len(tools) : tools[i].name = toolName
    THEN <<tools[CHOOSE k \in 1..Len(tools) :
                    /\ tools[k].name = toolName
                    /\ \A j \in 1..(k-1) : tools[j].name # toolName]>>
    ELSE <<Tool(toolName, "unknown")>>

\* availableTools.find(t => t.name === toolName): <<tool>> or <<>>
Find(tools, toolName) ==
    IF \E i \in 1..Len(tools) : tools[i].name = toolName
    THEN LET i == CHOOSE k \in 1..Len(tools) :
                    /\ tools[k].name = toolName
                    /\ \A j \in 1..(k-1) : tools[j].name # toolName
         IN <<tools[i]>>
    ELSE <<>>

\* availableTools.filter(t => selected.includes(t.name)): catalog order
MapSelected_CatalogOrder(selected, tools) ==
    SelectSeq(tools, LAMBDA t : \E i \in 1..Len(selected) : selected[i] = t.name)

\* the loop that maps selected tool names back to tool objects
RECURSIVE MapSelected(_, _)
MapSelected(selected, tools) ==
    IF selected = <<>> THEN <<>>
    ELSE Find(tools, Head(selected)) \o MapSelected(Tail(selected), tools)

\* the query sent whatever isHealthy answered
ProceedsToQuery_Always(isHealthy) == TRUE

\* selectTools goes on to the query unless `if (!isHealthy)` takes the call
ProceedsToQuery(isHealthy) == isHealthy

\* the outcome of selectTools: a tool list or a thrown RAGServiceError
Returned(tools) == [kind |-> "tools", tools |-> tools, err |-> "none"]
Thrown(err) == [kind |-> "throw", tools |-> <<>>, err |-> err]
NoOutcome == [kind |-> "none", tools |-> <<>>, err |-> "none"]

\* the fallback taken for a RAGServiceError only, any other error rethrown
FallbackOrThrow_OnlyServiceErrors(tools, limit, err) ==
    IF config.fallbackOnError /\ err # "RAGServiceError: wrapped"
    THEN Returned(Slice(tools, ActualLimit(limit)))
    ELSE Thrown(err)

\* the fallback branches of selectTools: slice when fallbackOnError, else throw
FallbackOrThrow(tools, limit, err) ==
    IF config.fallbackOnError
    THEN Returned(Slice(tools, ActualLimit(limit)))
    ELSE Thrown(err)

\* the whole list returned when no limit is given
DisabledOutcome_NoDefault(tools, limit) ==
    Returned(IF limit = Absent THEN tools ELSE Slice(tools, limit[1]))

\* selectTools when the client is disabled
DisabledOutcome(tools, limit) == Returned(Slice(tools, ActualLimit(limit)))

\* the whole catalog returned when unhealthy, the limit not applied
UnhealthyOutcome_Unsliced(tools, limit) ==
    IF config.fallbackOnError THEN Returned(tools)
    ELSE Thrown("RAGServiceError: RAG service is not available")

\* no tools at all once the service is already recorded as down
UnhealthyOutcome_EmptyWhenRecorded(tools, limit) ==
    IF ~config.fallbackOnError
    THEN Thrown("RAGServiceError: RAG service is not available")
    ELSE IF healthyCache = "false" THEN Returned(<<>>)
    ELSE Returned(Slice(tools, ActualLimit(limit)))

\* selectTools when isHealthy answered false
UnhealthyOutcome(tools, limit) ==
    FallbackOrThrow(tools, limit, "RAGServiceError: RAG service is not available")

\* a network or parse error rethrown as it is, not wrapped
QueryOutcome_RethrowsRaw(tools, limit, reply) ==
    IF reply.kind = "ok"
    THEN Returned(MapSelected(reply.selected, tools))
    ELSE IF reply.kind = "http_error"
    THEN FallbackOrThrow(tools, limit, "RAGServiceError: status")
    ELSE FallbackOrThrow(tools, limit, "TypeError")

\* selectTools from the answer of /select-tools on
QueryOutcome(tools, limit, reply) ==
    IF reply.kind = "ok"
    THEN Returned(MapSelected(reply.selected, tools))
    ELSE IF reply.kind = "http_error"
    THEN FallbackOrThrow(tools, limit, "RAGServiceError: status")
    ELSE FallbackOrThrow(tools, limit, "RAGServiceError: wrapped")

\* a response with a tools field, and a thrown error
OkResponse(tools) == [kind |-> "ok", hasTools |-> TRUE, tools |-> tools, err |-> "none"]
ThrowResponse(err) == [kind |-> "throw", hasTools |-> FALSE, tools |-> <<>>, err |-> err]

\* the handler's failure taken for a relevance failure and absorbed
HandlerThrowResponse_Absorbed ==
    IF mwConfig.fallbackOnError THEN OkResponse(<<>>)
    ELSE ThrowResponse("HandlerError")

\* the wrapped handler rejects: the await is outside the try, the error
\* leaves the middleware as it is
HandlerThrowResponse == ThrowResponse("HandlerError")

\* the middleware's response from the outcome of ragClient.selectTools
MiddlewareResponse(tools, sel) ==
    IF sel.kind = "tools"
    THEN OkResponse(sel.tools)
    ELSE IF mwConfig.fallbackOnError
    THEN OkResponse(Slice(tools, mwConfig.maxTools))
    ELSE ThrowResponse(sel.err)

----------------------------------------------------------------------------
(* State *)

NoRequest ==
    [name |-> Absent, query |-> Absent, sessionId |-> Absent, namespaceUuid |-> Absent]

\* a call in flight: where it waits, the `now` its isHealthy read, and whether
\* it sent GET /health
IdleCall == [pc |-> "idle", now |-> 0, probed |-> FALSE]

NoResponse == [kind |-> "none", hasTools |-> FALSE, tools |-> <<>>, err |-> "none"]

\* the record of a completed call; `sel` is what ragClient.selectTools gave the
\* middleware, `response` what the middleware gave its caller
NoCall ==
    [request |-> NoRequest, userQuery |-> "",
     handler |-> "none", path |-> "none", failure |-> "none", selected |-> <<>>,
     sel |-> NoOutcome, response |-> NoResponse, probed |-> FALSE, queried |-> FALSE]

InitState ==
    /\ healthyCache = "null"
    /\ lastHealthCheck = 0
    /\ now = 0
    /\ calls = [p \in Procs |-> IdleCall]
    /\ requests = 0
    /\ last = NoCall
    /\ failStreak = 0
    /\ streakAt = 0
    /\ recoveredAt = Absent
    /\ previous = Absent
    /\ failedAt = Absent

\* the middleware's configurations: the defaults, a small maxTools, no
\* fallback, disabled
MwDefault == [enabled |-> TRUE, maxTools |-> DefaultMaxTools, fallbackOnError |-> TRUE]

MwConfigs ==
    { MwDefault,
      [MwDefault EXCEPT !.maxTools = 1],
      [MwDefault EXCEPT !.maxTools = 1, !.fallbackOnError = FALSE],
      [MwDefault EXCEPT !.enabled = FALSE] }

\* the shared client constructed with fallbackOnError taken from a configuration
Init_ClientFallbackConfigured ==
    /\ InitState
    /\ history = "none"
    /\ catalog \in Catalogs
    /\ mwConfig \in MwConfigs
    /\ config \in [enabled : BOOLEAN, fallbackOnError : BOOLEAN,
                   defaultLimit : {defaultLimit}]

\* the program: the middleware calls the global ragClient = new RAGClient()
Init ==
    /\ InitState
    /\ history = "none"
    /\ catalog \in Catalogs
    /\ mwConfig \in MwConfigs
    /\ config \in [enabled : BOOLEAN, fallbackOnError : {TRUE},
                   defaultLimit : {defaultLimit}]

\* a RAGClient constructed with any configuration
InitAnyClient ==
    /\ InitState
    /\ history = "none"
    /\ catalog \in Catalogs \ {BigCatalog(DefaultMaxTools)}
    /\ mwConfig \in {m \in MwConfigs : m.enabled /\ m.maxTools = 1 => ~m.fallbackOnError}
    /\ config \in [enabled : BOOLEAN, fallbackOnError : BOOLEAN,
                   defaultLimit : {defaultLimit}]

\* the program with its default configuration, one of its histories recorded
InitHistory ==
    /\ InitState
    /\ history \in {"streak", "recovery"}
    /\ catalog = BigCatalog(DefaultMaxTools + 1)
    /\ mwConfig = MwDefault
    /\ config = [enabled |-> TRUE, fallbackOnError |-> TRUE,
                 defaultLimit |-> defaultLimit]

\* the program with its default configuration, one request repeated and the
\* first answer recorded
InitRepeat ==
    /\ InitState
    /\ history = "repeat"
    /\ catalog = <<Tool(2, "a"), Tool(1, "a"), Tool(1, "b")>>
    /\ mwConfig = MwDefault
    /\ config = [enabled |-> TRUE, fallbackOnError |-> TRUE,
                 defaultLimit |-> defaultLimit]

\* the program with its default configuration, the latest failed probe recorded
InitDown ==
    /\ InitState
    /\ history = "down"
    /\ catalog = BigCatalog(DefaultMaxTools + 1)
    /\ mwConfig = MwDefault
    /\ config = [enabled |-> TRUE, fallbackOnError |-> TRUE,
                 defaultLimit |-> defaultLimit]

----------------------------------------------------------------------------
(* Operations *)

\* what is kept of a list-tools answer for a later comparison
Answer(rec) ==
    [fallback |-> rec.failure # "none", selected |-> rec.selected,
     tools |-> rec.response.tools]

\* the paths that end in a slice of the handler's tools array
SlicedPaths == {"client_disabled", "unhealthy", "query_failed"}

\* a call completes: its caller receives rec.response; the handler's tools
\* array is left as the code's array operations leave it (the filtered path
\* reads it with map and find and pushes to a new array)
Complete(p, rec) ==
    /\ last' = rec
    /\ catalog' = IF rec.path \in SlicedPaths /\ rec.response.kind = "ok"
                   THEN ArrayAfterSlice(catalog, mwConfig.maxTools)
                   ELSE catalog
    /\ calls' = [calls EXCEPT ![p] = IdleCall]
    /\ previous' = IF /\ history = "repeat" /\ previous = Absent
                       /\ rec.sel.kind # "none" /\ rec.response.kind = "ok"
                    THEN <<Answer(rec)>> ELSE previous

\* the call goes to its next await on the network: fetch(url, {..., timeout}).
\* fetch is the platform's fetch (the file imports none) and is given no abort
\* signal; `timeout` is no option of the Fetch API, so the pending request
\* carries no deadline: it settles when the service answers or the connection
\* fails, and time passes meanwhile
Await(p, c, rec) ==
    /\ calls' = [calls EXCEPT ![p] = c]
    /\ last' = rec
    /\ UNCHANGED <<previous, catalog>>

\* a completed call that went through ragClient.selectTools
Selected(c, path, failure, sel) ==
    [NoCall EXCEPT !.handler = "ok", !.probed = c.probed, !.path = path,
                   !.failure = failure, !.sel = sel,
                   !.response = MiddlewareResponse(catalog, sel)]

\* the limit the middleware passes to selectTools
MwLimit == <<mwConfig.maxTools>>

\* the list-tools request a consumer repeats
RepeatedRequest == [NoRequest EXCEPT !.query = <<"convert pdf">>]

\* the requests the consumers make: any list-tools request, or one request
\* repeated a few times
RequestsMade == IF history = "repeat" THEN {RepeatedRequest} ELSE ListRequests

RequestBound == IF history = "repeat" THEN MaxRepeats ELSE MaxRequests

\* what the wrapped list handler does: it throws, answers with the catalog,
\* or answers with a response that has no tools field
HandlerReplies == {"throw", "ok", "no_tools"}

\* the response of a handler that does not throw
HandlerResponse(h) ==
    IF h = "ok" THEN OkResponse(catalog)
    ELSE [kind |-> "ok", hasTools |-> FALSE, tools |-> <<>>, err |-> "none"]

\* the middleware passes an empty catalog through, and filters when disabled
Bypasses_OnlyWhenEmpty(response) ==
    ~response.hasTools \/ Len(response.tools) = 0

\* the middleware passes the response through when disabled, a missing tools
\* field filtered as an empty list
Bypasses_NotWithoutTools(response) ==
    ~mwConfig.enabled \/ (response.hasTools /\ Len(response.tools) = 0)

\* !enabled || !response.tools || response.tools.length === 0
Bypasses(response) ==
    ~mwConfig.enabled \/ ~response.hasTools \/ Len(response.tools) = 0

\* the wrapped handler answers a list-tools request; the middleware and
\* selectTools run up to the first await on the network, or to the end
HandlerReturns(p) ==
    /\ calls[p].pc = "idle"
    /\ \A q \in Procs : q < p => calls[q].pc # "idle"
    /\ requests < RequestBound
    /\ requests' = requests + 1
    /\ \E req \in RequestsMade, h \in HandlerReplies :
         LET c == [pc |-> "idle", now |-> now, probed |-> FALSE]
             intent == [NoCall EXCEPT !.request = req,
                           !.userQuery = extractUserIntentFromContext(req)]
             WithIntent(rec) == [rec EXCEPT !.request = intent.request,
                                            !.userQuery = intent.userQuery]
         IN
         IF h = "throw"
         THEN Complete(p, [NoCall EXCEPT !.handler = "throw", !.path = "handler_throw",
                  !.response = HandlerThrowResponse])
         ELSE IF Bypasses(HandlerResponse(h))
         THEN Complete(p, [NoCall EXCEPT !.handler = h, !.path = "bypass",
                  !.response = HandlerResponse(h)])
         ELSE IF ~config.enabled
         THEN Complete(p, WithIntent(Selected(c, "client_disabled", "none",
                                              DisabledOutcome(catalog, MwLimit))))
         ELSE IF CacheIsRecent(now)
         THEN IF ProceedsToQuery(healthyCache = "true")
              THEN Await(p, [c EXCEPT !.pc = "selecting", !.now = 0], intent)
              ELSE Complete(p, WithIntent(Selected(c, "unhealthy", "health_cached_down",
                                                   UnhealthyOutcome(catalog, MwLimit))))
         ELSE Await(p, [c EXCEPT !.pc = "probing", !.probed = TRUE], intent)
    /\ UNCHANGED <<config, mwConfig, healthyCache, lastHealthCheck, now,
                   history, failStreak, streakAt, recoveredAt, failedAt>>

\* answers of GET /health: 2xx, non-2xx, or fetch rejects (network error, timeout)
HealthReplies == {"ok", "non_ok", "throws"}

\* what isHealthy stores once its fetch has settled: <<healthyCache, lastHealthCheck>>
HealthStore(healthy, startedAt) ==
    <<IF healthy THEN "true" ELSE "false", startedAt>>

\* the probe of isHealthy settles; selectTools goes on to the query or falls back
HealthResponds(p) ==
    /\ calls[p].pc = "probing"
    /\ \E h \in HealthReplies :
         LET c == calls[p]
             healthy == (h = "ok")
             store == HealthStore(healthy, c.now)
         IN
         /\ healthyCache' = store[1]
         /\ lastHealthCheck' = store[2]
         /\ recoveredAt' = IF history = "recovery" /\ healthy /\ healthyCache = "false"
                            THEN <<c.now>> ELSE recoveredAt
         /\ failedAt' = IF history = "down" /\ ~healthy THEN <<c.now>> ELSE failedAt
         /\ IF ProceedsToQuery(healthy)
            THEN Await(p, [c EXCEPT !.pc = "selecting", !.now = 0], NoCall)
            ELSE Complete(p, Selected(c, "unhealthy", "health_" \o h,
                                      UnhealthyOutcome(catalog, MwLimit)))
    /\ UNCHANGED <<config, mwConfig, now, requests,
                   history, failStreak, streakAt>>

\* answers of POST /select-tools: fetch rejects (network error, timeout), a
\* non-2xx status, a body that is no JSON, a body without an iterable
\* selected_tools, or a 2xx answer with a list of names
SelectReplies ==
    { [kind |-> k, selected |-> <<>>] :
          k \in {"network", "http_error", "bad_json", "malformed"} }
    \cup { [kind |-> "ok", selected |-> s] : s \in SelectedLists }

\* the query of selectTools settles and the call completes
SelectResponds(p) ==
    /\ calls[p].pc = "selecting"
    /\ \E reply \in SelectReplies :
         LET c == calls[p]
             sel == QueryOutcome(catalog, MwLimit, reply)
             rec == Selected(c, IF reply.kind = "ok" THEN "filtered" ELSE "query_failed",
                             IF reply.kind = "ok" THEN "none" ELSE reply.kind, sel)
         IN
         /\ Complete(p, [rec EXCEPT !.queried = TRUE, !.selected = reply.selected])
         /\ failStreak' = IF history # "streak" \/ reply.kind = "ok" THEN 0
                           ELSE Min(failStreak + 1, CircuitThreshold)
         /\ streakAt' = IF history # "streak" \/ reply.kind = "ok" THEN streakAt ELSE now
    /\ UNCHANGED <<config, mwConfig, healthyCache,
                   lastHealthCheck, now, requests, history, recoveredAt, failedAt>>

\* time passes
Tick ==
    /\ now < MaxTicks * TickStep
    /\ now' = now + TickStep
    /\ last' = NoCall
    /\ UNCHANGED <<config, mwConfig, catalog, healthyCache,
                   lastHealthCheck, calls, requests, history, failStreak, streakAt,
                   recoveredAt, previous, failedAt>>

Next ==
    \/ \E p \in Procs : HandlerReturns(p)
    \/ \E p \in Procs : HealthResponds(p)
    \/ \E p \in Procs : SelectResponds(p)
    \/ Tick

Spec == Init /\ [][Next]_vars

SpecAnyClient == InitAnyClient /\ [][Next]_vars

SpecHistory == InitHistory /\ [][Next]_vars

SpecRepeat == InitRepeat /\ [][Next]_vars

SpecDown == InitDown /\ [][Next]_vars

----------------------------------------------------------------------------
(* extractUserIntentFromContext on its own, over every shape of request *)

InitIntent ==
    /\ InitState
    /\ history = "none"
    /\ catalog = <<>>
    /\ mwConfig = MwDefault
    /\ config = [enabled |-> TRUE, fallbackOnError |-> TRUE,
                 defaultLimit |-> defaultLimit]

ExtractIntent ==
    /\ \E req \in Requests :
         last' = [NoCall EXCEPT !.request = req,
                                !.userQuery = extractUserIntentFromContext(req)]
    /\ UNCHANGED <<config, mwConfig, catalog, healthyCache, lastHealthCheck, now,
                   calls, requests, history, failStreak, streakAt, recoveredAt,
                   previous, failedAt>>

SpecIntent == InitIntent /\ [][ExtractIntent]_vars

----------------------------------------------------------------------------
(* createEnhancedRAGMiddleware next to createRAGListToolsMiddleware: one    *)
(* list-tools request seen from handler reply to response, the outcome of   *)
(* ragClient.selectTools being any of those the request path can produce    *)

\* what ragClient.selectTools can give the middleware for the catalog
SelectToolsOutcomes ==
    { DisabledOutcome(catalog, MwLimit), UnhealthyOutcome(catalog, MwLimit) }
    \cup { QueryOutcome(catalog, MwLimit, reply) : reply \in SelectReplies }

\* the plain middleware's handler: the wrapped handler is called once, then
\* pass-through, selection or fallback
createRAGListToolsMiddleware(h, sel) ==
    [ response |-> IF h = "throw" THEN HandlerThrowResponse
                   ELSE IF Bypasses(HandlerResponse(h)) THEN HandlerResponse(h)
                   ELSE MiddlewareResponse(catalog, sel),
      handlerCalls |-> 1 ]

\* a status filter applied on top of the RAG result when enabled
createEnhancedRAGMiddleware_FiltersStatus(h, sel, statusFilterEnabled) ==
    LET ragResponse == createRAGListToolsMiddleware(h, sel) IN
    IF ~statusFilterEnabled THEN ragResponse
    ELSE [ragResponse EXCEPT
            !.response.tools = SelectSeq(@, LAMBDA t : t.backend # "b")]

\* the enhanced middleware's handler: ragHandler = ragMiddleware(handler) is
\* awaited once and its response returned on both branches
createEnhancedRAGMiddleware(h, sel, statusFilterEnabled) ==
    LET ragResponse == createRAGListToolsMiddleware(h, sel) IN
    IF ~statusFilterEnabled THEN ragResponse
    ELSE ragResponse

\* one list-tools request through both middlewares
EnhancedListTools ==
    /\ \E h \in HandlerReplies, sel \in SelectToolsOutcomes,
          statusFilterEnabled \in BOOLEAN :
         last' = [handler |-> h, sel |-> sel,
                  statusFilterEnabled |-> statusFilterEnabled,
                  plain |-> createRAGListToolsMiddleware(h, sel),
                  enhanced |-> createEnhancedRAGMiddleware(h, sel, statusFilterEnabled)]
    /\ UNCHANGED <<config, mwConfig, catalog, healthyCache, lastHealthCheck, now,
                   calls, requests, history, failStreak, streakAt, recoveredAt,
                   previous, failedAt>>

SpecEnhanced == Init /\ [][EnhancedListTools]_vars

----------------------------------------------------------------------------
(* The validation suite's tool-availability test (RAGValidationSuite)       *)

totalTools == 15

\* Object.values(this.testCategories).flat()
ExpectedTools ==
    << "test_calculate", "test_convert_units", "test_statistics",
       "test_read_file", "test_write_file", "test_list_files",
       "test_format_text", "test_extract_keywords", "test_summarize",
       "test_generate_data", "test_create_sample", "test_mock_api",
       "test_system_status", "test_environment", "test_diagnostics" >>

\* the names the pattern "name":"(test_[^"]+)" matches
TestNames == Range(ExpectedTools) \cup {"test_extra"}

\* what running the MCP server gives: execSync throws (server missing, exit
\* code, timeout) or returns a tools/list answer with these names
Discoveries ==
    { [kind |-> "error", names |-> <<>>] }
    \cup { [kind |-> "stdout", names |-> n] :
             n \in { SubSeq(ExpectedTools, i, j) : i \in 1..totalTools, j \in 0..totalTools }
                   \cup { <<"read_file">>, ExpectedTools \o <<"test_extra">> } }

\* stdout.match(...) mapped to the names, [] when nothing matches
MatchedTools(d) == SelectSeq(d.names, LAMBDA n : n \in TestNames)

\* getAvailableTools: the discovered tools, and on an error or an empty
\* discovery the catch returns the expected tool structure
getAvailableTools(d) ==
    IF d.kind = "stdout" /\ Len(MatchedTools(d)) > 0
    THEN MatchedTools(d)
    ELSE ExpectedTools

\* testToolAvailability: the result pushed to this.results
testToolAvailability(d) ==
    LET availableTools == getAvailableTools(d) IN
    [ testId |-> "AVAILABILITY-001", expected |-> totalTools,
      actual |-> Len(availableTools),
      passed |-> Len(availableTools) = totalTools ]

RunToolAvailability ==
    /\ \E d \in Discoveries :
         last' = [discovery |-> d, result |-> testToolAvailability(d)]
    /\ UNCHANGED <<config, mwConfig, catalog, healthyCache, lastHealthCheck, now,
                   calls, requests, history, failStreak, streakAt, recoveredAt,
                   previous, failedAt>>

SpecDiscovery == InitIntent /\ [][RunToolAvailability]_vars

----------------------------------------------------------------------------
(* selectTools called on the client itself, with or without a limit: one    *)
(* call from entry to return, with the requests it sends to the service     *)

\* the limit argument: not given, or a count
Limits == {Absent, <<0>>, <<1>>, <<DefaultMaxTools + 1>>}

\* the answers of POST /select-tools to a direct call: any failure, or a list
\* of at most one name
DirectReplies == { r \in SelectReplies : Len(r.selected) <= 1 }

InitDirect ==
    /\ InitState
    /\ history = "none"
    /\ catalog = <<>>
    /\ mwConfig = MwDefault
    /\ config \in [enabled : BOOLEAN, fallbackOnError : BOOLEAN,
                   defaultLimit : {defaultLimit}]

\* selectTools(query, tools, limit): the outcome, the URLs fetched in order
\* and what isHealthy leaves in <<healthyCache, lastHealthCheck>>
SelectToolsDirect(tools, limit, health, reply) ==
    LET kept == <<healthyCache, lastHealthCheck>>
        probes == ~CacheIsRecent(now)
        isHealthy == IF probes THEN health = "ok" ELSE healthyCache = "true"
        store == IF probes THEN HealthStore(isHealthy, now) ELSE kept
        probe == IF probes THEN <<"/health">> ELSE <<>>
    IN
    IF ~config.enabled
    THEN [outcome |-> DisabledOutcome(tools, limit), fetches |-> <<>>, store |-> kept]
    ELSE IF ~ProceedsToQuery(isHealthy)
    THEN [outcome |-> UnhealthyOutcome(tools, limit), fetches |-> probe,
          store |-> store]
    ELSE [outcome |-> QueryOutcome(tools, limit, reply),
          fetches |-> probe \o <<"/select-tools">>, store |-> store]

\* one direct call at a time, the service answering as it likes
CallSelectTools ==
    /\ \E tools \in Catalogs, limit \in Limits, health \in HealthReplies,
          reply \in DirectReplies :
         LET r == SelectToolsDirect(tools, limit, health, reply)
         IN
         /\ last' = [tools |-> tools, limit |-> limit, outcome |-> r.outcome,
                     fetches |-> r.fetches]
         /\ healthyCache' = r.store[1]
         /\ lastHealthCheck' = r.store[2]
    /\ UNCHANGED <<config, mwConfig, catalog, now, calls, requests, history,
                   failStreak, streakAt, recoveredAt, previous, failedAt>>

NextDirect ==
    \/ CallSelectTools
    \/ Tick

SpecDirect == InitDirect /\ [][NextDirect]_vars

----------------------------------------------------------------------------
(* getStats of the client: GET /stats, awaited while selectTools calls go on *)

\* RAGServiceStats as the service may send them
StatsValues ==
    { [tool_count |-> n, vector_db_path |-> "./chroma", embedding_model |-> "minilm"] :
          n \in {0, totalTools} }

\* answers of GET /stats: a 2xx answer with a JSON body, a non-2xx status, a
\* fetch that rejects, a 2xx answer whose body is no JSON
StatsReplies ==
    { [kind |-> "ok", status |-> 200, stats |-> <<v>>] : v \in StatsValues }
    \cup { [kind |-> "http_error", status |-> c, stats |-> Absent] : c \in {404, 500, 503} }
    \cup { [kind |-> k, status |-> 0, stats |-> Absent] : k \in {"network", "bad_json"} }

NoStatsReply == [kind |-> "none", status |-> 0, stats |-> Absent]

\* the outcome of getStats: the statistics, or a thrown error with its name,
\* message, statusCode and originalError
StatsReturned(v) ==
    [kind |-> "stats", stats |-> <<v>>, name |-> "none", message |-> "",
     statusCode |-> Absent, originalError |-> Absent]

StatsThrown(name, message, statusCode, originalError) ==
    [kind |-> "throw", stats |-> Absent, name |-> name, message |-> message,
     statusCode |-> statusCode, originalError |-> originalError]

\* new RAGServiceError("RAG service is disabled"), before the try
StatsDisabledOutcome ==
    StatsThrown("RAGServiceError", "RAG service is disabled", Absent, Absent)

\* what the try block of getStats throws or returns for an answer
StatsTry(reply) ==
    IF reply.kind = "ok" THEN StatsReturned(reply.stats[1])
    ELSE IF reply.kind = "http_error"
    THEN StatsThrown("RAGServiceError", "RAG service error: status",
                     <<reply.status>>, Absent)
    ELSE IF reply.kind = "network"
    THEN StatsThrown("TypeError", "fetch failed", Absent, Absent)
    ELSE StatsThrown("SyntaxError", "Unexpected token", Absent, Absent)

\* empty statistics returned in place of a failure
StatsOutcome_DefaultOnError(reply) ==
    LET tried == StatsTry(reply) IN
    IF tried.kind = "throw"
    THEN StatsReturned([tool_count |-> 0, vector_db_path |-> "", embedding_model |-> ""])
    ELSE tried

\* getStats from the answer on: the catch rethrows a RAGServiceError and
\* wraps anything else, keeping it as originalError
StatsOutcome(reply) ==
    LET tried == StatsTry(reply) IN
    IF tried.kind = "throw" /\ tried.name # "RAGServiceError"
    THEN StatsThrown("RAGServiceError", "Failed to get RAG service stats",
                     Absent, <<tried.name>>)
    ELSE tried

\* getStats assigns neither healthyCache nor lastHealthCheck
StatsHealthStore == <<healthyCache, lastHealthCheck>>

\* the record of a completed getStats: the answer it got, its outcome, the
\* URLs it fetched and the health cache it found
StatsRecord(reply, outcome, fetches) ==
    [reply |-> reply, outcome |-> outcome, fetches |-> fetches,
     cache |-> <<healthyCache, lastHealthCheck>>]

\* getStats is called: a disabled client throws at once, an enabled one
\* sends GET /stats and waits
StartStats ==
    /\ calls[1].pc = "idle"
    /\ IF ~config.enabled
       THEN /\ last' = StatsRecord(NoStatsReply, StatsDisabledOutcome, <<>>)
            /\ calls' = calls
       ELSE /\ last' = NoCall
            /\ calls' = [calls EXCEPT ![1].pc = "stats"]
    /\ healthyCache' = StatsHealthStore[1]
    /\ lastHealthCheck' = StatsHealthStore[2]
    /\ UNCHANGED <<config, mwConfig, catalog, now, requests, history,
                   failStreak, streakAt, recoveredAt, previous, failedAt>>

\* GET /stats settles and getStats returns or throws
StatsResponds ==
    /\ calls[1].pc = "stats"
    /\ \E reply \in StatsReplies :
         last' = StatsRecord(reply, StatsOutcome(reply), <<"/stats">>)
    /\ calls' = [calls EXCEPT ![1].pc = "idle"]
    /\ healthyCache' = StatsHealthStore[1]
    /\ lastHealthCheck' = StatsHealthStore[2]
    /\ UNCHANGED <<config, mwConfig, catalog, now, requests, history,
                   failStreak, streakAt, recoveredAt, previous, failedAt>>

NextStats ==
    \/ StartStats
    \/ StatsResponds
    \/ CallSelectTools
    \/ Tick

SpecStats == InitDirect /\ [][NextStats]_vars

----------------------------------------------------------------------------
(* The fields of the handler's response next to tools (the nextCursor and    *)
(* _meta of a ListToolsResult) through createRAGListToolsMiddleware          *)

\* responses of the wrapped handler that carry the catalog and may carry a
\* pagination cursor and metadata
ListToolsResults ==
    { [kind |-> "ok", hasTools |-> TRUE, tools |-> catalog, err |-> "none",
       nextCursor |-> c, meta |-> m] :
          c \in {Absent, <<"page-2">>}, m \in {Absent, <<"trace-1">>} }

\* a new object with the tools alone
SpreadWithTools_ToolsOnly(response, tools) ==
    [response EXCEPT !.tools = tools, !.nextCursor = Absent, !.meta = Absent]

\* { ...response, tools: tools }
SpreadWithTools(response, tools) == [response EXCEPT !.tools = tools]

\* the error of selectTools rethrown by the middleware
RethrownResponse(err) ==
    [kind |-> "throw", hasTools |-> FALSE, tools |-> <<>>, err |-> err,
     nextCursor |-> Absent, meta |-> Absent]

\* the middleware from the handler's response on, given what
\* ragClient.selectTools returned or threw
ListToolsResponse(response, sel) ==
    IF Bypasses(response) THEN response
    ELSE IF sel.kind = "tools" THEN SpreadWithTools(response, sel.tools)
    ELSE IF mwConfig.fallbackOnError
    THEN SpreadWithTools(response, Slice(response.tools, mwConfig.maxTools))
    ELSE RethrownResponse(sel.err)

\* one list-tools request whose handler answers with a full result
ListToolsWithRest ==
    /\ \E response \in ListToolsResults, sel \in SelectToolsOutcomes :
         last' = [handlerResponse |-> response, sel |-> sel,
                  response |-> ListToolsResponse(response, sel)]
    /\ UNCHANGED <<config, mwConfig, catalog, healthyCache, lastHealthCheck, now,
                   calls, requests, history, failStreak, streakAt, recoveredAt,
                   previous, failedAt>>

SpecFrame == InitAnyClient /\ [][ListToolsWithRest]_vars

----------------------------------------------------------------------------
(* The invoke path of the router.  Its code is not among the files of the   *)
(* RAG integration; it is modelled from the specification: "parse           *)
(* qualified_name to recover (owning backend, local_name); if the backend   *)
(* is unknown or disconnected, return a typed capability-unavailable error; *)
(* otherwise forward to the Backend Connection Manager and return its       *)
(* result verbatim".                                                        *)

\* the backends of the configuration, and an id that names none of them
Backends == {"backendA", "backendB"}
BackendIds == Backends \cup {"backendC"}
LocalNames == {"tool_x", "search", "read_file"}
Separator == "::"

\* backend_id + separator + local_name
QualifiedName(b, l) == <<b, Separator, l>>

\* the names a consumer may invoke, one of them without a separator
InvokedNames ==
    { QualifiedName(b, l) : b \in BackendIds, l \in LocalNames } \cup { <<"tool_x">> }

\* the owning backend and the local name of a qualified name, <<>> if it has none
ParseQualifiedName(q) ==
    IF Len(q) = 3 /\ q[2] = Separator THEN <<q[1], q[3]>> ELSE <<>>

\* what a backend answers to a forwarded call: a result or its own failure
BackendResults == {"result-1", "result-2", "InvocationError"}

NotForwarded == <<>>

\* a call forwarded although its backend is disconnected
invoke_ForwardsToDisconnected(q, connected, answer) ==
    LET parsed == ParseQualifiedName(q) IN
    IF parsed = <<>> \/ parsed[1] \notin Backends
    THEN [kind |-> "error", value |-> "BackendUnavailable", forwarded |-> NotForwarded]
    ELSE [kind |-> "answer", value |-> answer, forwarded |-> parsed]

\* invoke capability: the typed error for an unknown or disconnected backend,
\* else the backend's answer verbatim
invoke(q, connected, answer) ==
    LET parsed == ParseQualifiedName(q) IN
    IF parsed = <<>> \/ parsed[1] \notin Backends \/ parsed[1] \notin connected
    THEN [kind |-> "error", value |-> "BackendUnavailable", forwarded |-> NotForwarded]
    ELSE [kind |-> "answer", value |-> answer, forwarded |-> parsed]

InitInvoke == InitIntent

\* a consumer invokes a capability while some of the backends are connected
InvokeCapability ==
    /\ \E q \in InvokedNames, connected \in SUBSET Backends, answer \in BackendResults :
         last' = [invoked |-> q, connected |-> connected, answer |-> answer,
                  outcome |-> invoke(q, connected, answer)]
    /\ UNCHANGED <<config, mwConfig, catalog, healthyCache, lastHealthCheck, now,
                   calls, requests, history, failStreak, streakAt, recoveredAt,
                   previous, failedAt>>

SpecInvoke == InitInvoke /\ [][InvokeCapability]_vars

----------------------------------------------------------------------------
(* Claims *)

\* the latest step completed a call that went into ragClient.selectTools
SelectToolsReturned == last.sel.kind # "none"

\* the first min(N, n) tools of the catalog, in catalog order
IsCatalogPrefix(tools, n) ==
    /\ Len(tools) = Min(Len(catalog), n)
    /\ \A i \in 1..Len(tools) : tools[i] = catalog[i]

InCatalog(name) == \E i \in 1..Len(catalog) : catalog[i].name = name

C2_HttpErrorReturnsPrefix ==
    (/\ mwConfig = MwDefault
     /\ config.enabled /\ config.fallbackOnError
     /\ last.failure = "http_error")
    => /\ last.response.kind = "ok"
       /\ IsCatalogPrefix(last.response.tools, DefaultMaxTools)

C2_Witness ==
    /\ mwConfig = MwDefault
    /\ last.failure = "http_error"
    /\ Len(catalog) = DefaultMaxTools
    /\ last.response.kind = "ok"
    /\ Len(last.response.tools) = DefaultMaxTools

\* C3 as stated: whenever the wrapped handler returns a non-empty catalog,
\* list-tools returns a non-empty tool list without throwing, whatever the
\* relevance service answers.
C3_NeverEmptyNeverThrows ==
    (last.handler = "ok" /\ Len(catalog) > 0) =>
        /\ last.response.kind = "ok"
        /\ Len(last.response.tools) > 0

\* C4: every tool selectTools returns, filtered or fallback, is an element of
\* the availableTools it was given; a selected name that is no candidate is
\* dropped.
C4_ReturnsOnlyCandidates ==
    last.sel.kind = "tools" =>
        /\ \A i \in 1..Len(last.sel.tools) : last.sel.tools[i] \in Range(catalog)
        /\ last.path = "filtered" =>
              \A i \in 1..Len(last.sel.tools) :
                  last.sel.tools[i].name \in Range(last.selected)

C4_Witness ==
    /\ last.path = "filtered"
    /\ \E i \in 1..Len(last.selected) : ~InCatalog(last.selected[i])
    /\ Len(last.sel.tools) > 0
    /\ Len(last.sel.tools) < Len(last.selected)

\* C5 as stated: with RAG filtering enabled the number of tools in a
\* list-tools response never exceeds maxTools, whatever the service returns.
C5_AtMostMaxTools ==
    (mwConfig.enabled /\ last.handler = "ok" /\ last.response.kind = "ok") =>
        Len(last.response.tools) <= mwConfig.maxTools

\* C6: on a successful selection the returned records appear in exactly the
\* order of selected_tools, the names that are not in the catalog skipped.
C6_KeepsSelectedOrder ==
    last.path = "filtered" =>
        /\ last.sel.kind = "tools"
        /\ Names(last.sel.tools) = SelectSeq(last.selected, InCatalog)
        /\ \A i \in 1..Len(last.sel.tools) : last.sel.tools[i] \in Range(catalog)

C6_Witness ==
    /\ last.path = "filtered"
    /\ Len(last.sel.tools) = 2
    /\ last.sel.tools[1].name # last.sel.tools[2].name
    /\ last.sel.tools[2] = catalog[1]

\* the latest step extracted an intent
IntentExtracted == last.userQuery # ""

GenericQueries ==
    { "Select tools for current namespace workflow",
      "Select the most commonly used and essential tools" }

StartsSelectTools == requests' = requests + 1 /\ last'.userQuery # ""

\* this step starts a list-tools call that reaches isHealthy
StartsIsHealthy == StartsSelectTools /\ last'.path # "client_disabled"

\* this step sends GET /health
SendsProbe == \E p \in Procs : calls[p].pc = "idle" /\ calls'[p].pc = "probing"

\* this step sends POST /select-tools
SendsQuery == \E p \in Procs : calls[p].pc # "selecting" /\ calls'[p].pc = "selecting"

\* this step starts a call that sends POST /select-tools without a probe
QueriesFromCache == \E p \in Procs : calls[p].pc = "idle" /\ calls'[p].pc = "selecting"

\* C8: a probe result is cached for 30 000 ms: a call to isHealthy that starts
\* less than 30 000 ms after the timestamp the last completed probe recorded
\* sends no /health request and uses the cached value (healthy or unhealthy);
\* a call at or after 30 000 ms (or with nothing cached) sends a new probe;
\* a completed probe records the time at which its call started.
C8_HealthCacheWindow ==
    [][ /\ StartsIsHealthy =>
             IF healthyCache # "null" /\ now - lastHealthCheck < HEALTH_CACHE_DURATION
             THEN /\ ~SendsProbe
                  /\ healthyCache' = healthyCache /\ lastHealthCheck' = lastHealthCheck
                  /\ IF healthyCache = "true"
                     THEN QueriesFromCache
                     ELSE last'.failure = "health_cached_down"
             ELSE SendsProbe /\ ~QueriesFromCache /\ last'.path = "none"
        /\ \A p \in Procs :
             (calls[p].pc = "probing" /\ calls'[p].pc # "probing") =>
                 /\ lastHealthCheck' = calls[p].now
                 /\ healthyCache' = IF calls'[p].pc = "selecting" THEN "true" ELSE "false"
      ]_vars

C8_Witness ==
    /\ last.failure = "health_cached_down"
    /\ now - lastHealthCheck = TickStep
    /\ healthyCache = "false"

\* C9 as stated: after CircuitThreshold consecutive failed /select-tools
\* queries the circuit is open: a following selectTools call (here one that
\* starts before any time has passed, so within any cooldown) is answered with
\* the pass-through list and sends no request.
C9_CircuitOpens ==
    [][ (/\ history = "streak"
         /\ failStreak >= CircuitThreshold
         /\ now = streakAt
         /\ StartsSelectTools)
        => /\ ~SendsProbe /\ ~SendsQuery
           /\ last'.sel.kind = "tools"
           /\ IsCatalogPrefix(last'.sel.tools, mwConfig.maxTools)
      ]_vars

\* the recovery window: less than 30 000 ms after the timestamp recorded by
\* the probe that succeeded while the service was recorded as down
InRecoveryWindow ==
    /\ recoveredAt # Absent
    /\ now - recoveredAt[1] < HEALTH_CACHE_DURATION

\* a probe succeeds in this step while the service is recorded as down
RecoveryProbe(p) ==
    /\ healthyCache = "false"
    /\ calls[p].pc = "probing" /\ calls'[p].pc # "probing"
    /\ healthyCache' = "true"

C11_DegradedReturnsCappedCatalog ==
    last.path = "unhealthy" =>
        /\ last.response.kind = "ok"
        /\ IsCatalogPrefix(last.response.tools, mwConfig.maxTools)
        /\ ~last.queried
        /\ last.failure = "health_cached_down" => ~last.probed

C11_Witness ==
    /\ last.failure = "health_cached_down"
    /\ healthyCache = "false"
    /\ Len(catalog) > mwConfig.maxTools
    /\ last.response.kind = "ok"
    /\ Len(last.response.tools) = mwConfig.maxTools

\* C12 as stated: when the relevance service is unavailable or a selection
\* fails, the list list-tools falls back to holds all of the available tools:
\* it has the same length as the catalog.
C12_FallbackReturnsAll ==
    (last.failure # "none" /\ last.response.kind = "ok") =>
        Len(last.response.tools) = Len(catalog)

\* no request to the relevance service is in flight
NothingInFlight == \A p \in Procs : calls[p].pc = "idle"

\* C13: a middleware created with enabled = false returns exactly the wrapped
\* handler's response (all tools, same order, no cap) and sends no request
\* to the relevance service: no probe, no query, the health cache untouched.
C13_DisabledPassesThrough ==
    ~mwConfig.enabled =>
        /\ NothingInFlight
        /\ healthyCache = "null" /\ lastHealthCheck = 0
        /\ ~last.probed /\ ~last.queried /\ last.sel = NoOutcome
        /\ last.handler = "ok" => last.response = OkResponse(catalog)
        /\ last.handler = "no_tools" => last.response = HandlerResponse("no_tools")

C13_Witness ==
    /\ ~mwConfig.enabled
    /\ last.handler = "ok"
    /\ Len(catalog) > mwConfig.maxTools
    /\ last.response.tools = catalog
    /\ requests = MaxRequests

\* the latest step answered the repeated request out of ragClient.selectTools,
\* after an earlier answer to the same request over the same catalog
RepeatAnswered ==
    /\ history = "repeat" /\ previous # Absent
    /\ last.sel.kind # "none" /\ last.response.kind = "ok"

\* the relevance service, where it answered both requests, selected the same
\* names for the same query
SameSelection ==
    (~previous[1].fallback /\ last.path = "filtered")
        => last.selected = previous[1].selected

\* C14 as stated: two list-tools requests with the same query over an
\* unchanged catalog return the identical ordered tool list, whatever happens
\* between them (cache expiry, intermediate probes, other requests), the
\* relevance service answering the same query the same way.
C14_RepeatIsIdentical ==
    (RepeatAnswered /\ SameSelection) => last.response.tools = previous[1].tools

\* C14 amended: two list-tools requests with the same query over an unchanged
\* catalog return the identical ordered tool list when both are answered by
\* the fallback, or both are filtered from the same selected_tools answer of
\* the relevance service, whatever happens between them.
C14_RepeatIsIdenticalOnSamePath ==
    (/\ RepeatAnswered
     /\ \/ previous[1].fallback /\ last.failure # "none"
        \/ /\ ~previous[1].fallback /\ last.path = "filtered"
           /\ last.selected = previous[1].selected)
    => last.response.tools = previous[1].tools

C14_Witness ==
    /\ RepeatAnswered
    /\ ~previous[1].fallback /\ Len(previous[1].tools) = 2
    /\ last.path = "filtered" /\ last.selected = previous[1].selected
    /\ last.probed /\ now = HEALTH_CACHE_DURATION
    /\ requests = MaxRepeats

\* C15: filtering never mutates the catalog: over every list-tools call, on
\* every path (filtered, fallback, error), the handler's tools array holds
\* the same elements in the same order after the call as before it.
C15_CatalogNotMutated == [][catalog' = catalog]_vars

C15_Witness ==
    /\ last.failure # "none" /\ last.response.kind = "ok"
    /\ Len(last.response.tools) = mwConfig.maxTools
    /\ catalog = BigCatalog(DefaultMaxTools + 1)
    /\ requests = MaxRequests

\* the probe of call p settles in this step
ProbeSettles(p) == calls[p].pc = "probing" /\ calls'[p].pc # "probing"

\* C16 as stated: under any interleaving of concurrent calls on one client
\* the recorded last-checked timestamp never decreases, and a probe that
\* started before the probe whose result is recorded, but completes after
\* it, does not overwrite that result.
C16_HealthStateMonotonic ==
    [][ /\ lastHealthCheck' >= lastHealthCheck
        /\ \A p \in Procs :
             (ProbeSettles(p) /\ healthyCache # "null" /\ calls[p].now < lastHealthCheck)
                 => (healthyCache' = healthyCache /\ lastHealthCheck' = lastHealthCheck)
      ]_vars

\* pairwise distinct names: set size equals list length
DistinctNames(tools) == Cardinality(Range(Names(tools))) = Len(tools)

\* C17 as stated: every tool list delivered by list-tools has pairwise
\* distinct names whenever the handler's catalog has distinct names, whatever
\* the relevance service returns in selected_tools.
C17_DeliveredNamesDistinct ==
    (DistinctNames(catalog) /\ last.response.kind = "ok")
        => DistinctNames(last.response.tools)

\* C18 as stated: if two catalog entries expose the same name, both are
\* retained: when the relevance service selects that name, the filter
\* delivers every catalog entry of that name, none dropped by the collision.
C18_CollidingNamesRetained ==
    (last.path = "filtered" /\ last.response.kind = "ok") =>
        \A i \in 1..Len(catalog) :
            catalog[i].name \in Range(last.selected)
                => catalog[i] \in Range(last.response.tools)

\* C19: when the handler's catalog is empty or its response has no tools
\* field, list-tools returns the handler's response unchanged, sends no
\* request to the relevance service and surfaces no error.
C19_EmptyCatalogPassesThrough ==
    /\ (last.handler = "no_tools" \/ (last.handler = "ok" /\ Len(catalog) = 0)) =>
           /\ last.path = "bypass"
           /\ last.response = HandlerResponse(last.handler)
           /\ ~last.probed /\ ~last.queried /\ last.sel = NoOutcome
    /\ Len(catalog) = 0 => (NothingInFlight /\ healthyCache = "null")

C19_Witness ==
    /\ mwConfig.enabled /\ config.enabled
    /\ last.handler = "no_tools" /\ Len(catalog) > 0
    /\ last.response.kind = "ok" /\ ~last.response.hasTools
    /\ healthyCache = "true"

\* C20 as stated, in its safety form: each network call on the request path
\* either answers or is cut off by the configured timeout, so no health
\* probe is still pending once more than `timeout` ms have passed since the
\* call read the clock and sent it.
C20_CutOffAtTimeout ==
    \A p \in Procs : calls[p].pc = "probing" => now - calls[p].now <= timeout

\* the latest step invoked a capability
Invoked == "outcome" \in DOMAIN last

\* the owning backend of the invoked name is unknown or disconnected
OwnerUnavailable ==
    \/ ParseQualifiedName(last.invoked) = <<>>
    \/ ParseQualifiedName(last.invoked)[1] \notin last.connected

\* C21: invoking a capability whose owning backend is unknown or has
\* disconnected returns the typed BackendUnavailable error to the consumer:
\* the call has an outcome (no hang, no crash) and is forwarded to no backend.
C21_UnavailableBackendTypedError ==
    (Invoked /\ OwnerUnavailable) =>
        /\ last.outcome.kind = "error"
        /\ last.outcome.value = "BackendUnavailable"
        /\ last.outcome.forwarded = NotForwarded

C21_Witness ==
    /\ Invoked
    /\ last.invoked = QualifiedName("backendA", "tool_x")
    /\ last.connected = {"backendB"}
    /\ last.outcome.value = "BackendUnavailable"

\* the RAGServiceError selectTools throws for a failure when it does not fall
\* back: "not available" for an unhealthy service, the error that carries the
\* status code for a non-2xx answer, the wrapped original error otherwise
ErrorOfFailure(failure) ==
    IF failure \in {"health_cached_down", "health_non_ok", "health_throws"}
    THEN "RAGServiceError: RAG service is not available"
    ELSE IF failure = "http_error" THEN "RAGServiceError: status"
    ELSE "RAGServiceError: wrapped"

\* C23: with fallbackOnError = false on the client, selectTools either
\* returns a tool list or throws an RAGServiceError, never another error: an
\* unhealthy service, a non-2xx answer (with its status) and any network or
\* parse error (wrapped) each surface as their RAGServiceError.
C23_ThrowsOnlyRAGServiceError ==
    (SelectToolsReturned /\ ~config.fallbackOnError) =>
        IF last.failure = "none"
        THEN last.sel.kind = "tools"
        ELSE last.sel.kind = "throw" /\ last.sel.err = ErrorOfFailure(last.failure)

C23_Witness ==
    /\ ~config.fallbackOnError
    /\ last.failure = "bad_json"
    /\ last.sel = Thrown("RAGServiceError: wrapped")

\* C24: with the middleware's own fallbackOnError = false a failure of the
\* relevance service (health or query) is still not surfaced: the shared
\* global ragClient absorbs it, selectTools gives the middleware a list, and
\* the middleware returns the capped catalog; its rethrow branch is not taken.
C24_MiddlewareNeverRethrows ==
    /\ last.sel.kind # "throw"
    /\ (mwConfig.enabled /\ ~mwConfig.fallbackOnError /\ last.failure # "none") =>
           /\ last.sel.kind = "tools"
           /\ last.response.kind = "ok"
           /\ IsCatalogPrefix(last.response.tools, mwConfig.maxTools)

C24_Witness ==
    /\ ~mwConfig.fallbackOnError
    /\ last.failure = "network"
    /\ last.response.kind = "ok"
    /\ Len(catalog) > mwConfig.maxTools
    /\ Len(last.response.tools) = mwConfig.maxTools

\* less than 30 000 ms after the timestamp of the latest failed probe
InFailureWindow ==
    /\ history = "down" /\ failedAt # Absent
    /\ now - failedAt[1] < HEALTH_CACHE_DURATION

\* the cache holds the record of the latest failed probe
HoldsFailedRecord ==
    /\ history = "down" /\ failedAt # Absent
    /\ healthyCache = "false" /\ lastHealthCheck = failedAt[1]

\* this step answers a new call with the fallback list, nothing sent
AnsweredFromCache ==
    /\ ~SendsProbe /\ ~SendsQuery
    /\ last'.failure = "health_cached_down"
    /\ last'.response.kind = "ok"
    /\ IsCatalogPrefix(last'.response.tools, mwConfig.maxTools)

\* a call at or after 30 000 ms past the recorded failure sends a new probe
ProbesAgainAfterWindow ==
    (/\ HoldsFailedRecord /\ now - failedAt[1] >= HEALTH_CACHE_DURATION
     /\ StartsIsHealthy) => SendsProbe

SendsQueryOf(p) == calls[p].pc # "selecting" /\ calls'[p].pc = "selecting"

\* isHealthy has just answered true within call p: from a recent cached
\* record at the start of the call, or from the call's own probe
HealthyInCall(p) ==
    \/ /\ calls[p].pc = "idle"
       /\ healthyCache = "true"
       /\ now - lastHealthCheck < HEALTH_CACHE_DURATION
    \/ calls[p].pc = "probing" /\ healthyCache' = "true"

\* C26: in every selectTools call on an enabled client the health decision
\* precedes the query: POST /select-tools is sent only in the step in which
\* isHealthy has returned true within that call, and at most once per call:
\* when the query settles the call completes, failed or not, with no retry
\* and no further probe.
C26_HealthPrecedesSingleQuery ==
    [][ \A p \in Procs :
          /\ SendsQueryOf(p) => (config.enabled /\ HealthyInCall(p))
          /\ (calls[p].pc = "selecting" /\ calls'[p] # calls[p]) =>
                 /\ calls'[p].pc = "idle"
                 /\ last'.queried /\ last'.response.kind # "none"
      ]_vars

C26_Witness ==
    /\ last.queried /\ last.probed
    /\ last.failure = "network"
    /\ NothingInFlight
    /\ requests = 1

C28_HandlerFailurePropagates ==
    last.handler = "throw" =>
        /\ last.response = ThrowResponse("HandlerError")
        /\ ~last.probed /\ ~last.queried /\ last.sel = NoOutcome

C28_Witness ==
    /\ last.handler = "throw"
    /\ mwConfig.enabled /\ mwConfig.fallbackOnError /\ config.enabled
    /\ last.response.kind = "throw"
    /\ healthyCache = "true" /\ Len(catalog) > 0

\* C29 as stated: in the validation suite a failing tool discovery is a
\* failure: when the discovery from the MCP server errors or finds zero
\* tools, the tool-availability test records a result with passed = false.
C29_FailedDiscoveryFails ==
    ("discovery" \in DOMAIN last
     /\ (last.discovery.kind = "error" \/ Len(MatchedTools(last.discovery)) = 0))
    => ~last.result.passed

\* the tools a call is given, its limit and what it returned and fetched
DirectCallOnDisabled == "limit" \in DOMAIN last /\ ~config.enabled

\* C30: when the client is disabled, selectTools makes no call to the
\* relevance service (no health probe, no query) and returns the first
\* min(N, limit) of the N available tools in their original order, the limit
\* being defaultLimit when none is given.
C30_DisabledSlicesWithoutCalls ==
    DirectCallOnDisabled =>
        LET n == IF last.limit = Absent THEN defaultLimit ELSE last.limit[1]
            k == Min(Len(last.tools), n)
        IN
        /\ last.fetches = <<>>
        /\ healthyCache = "null" /\ lastHealthCheck = 0
        /\ last.outcome.kind = "tools"
        /\ Len(last.outcome.tools) = k
        /\ \A i \in 1..k : last.outcome.tools[i] = last.tools[i]

\* a disabled client called without a limit on a catalog longer than
\* defaultLimit
C30_Witness ==
    /\ DirectCallOnDisabled
    /\ last.limit = Absent
    /\ Len(last.tools) > defaultLimit
    /\ Len(last.outcome.tools) = defaultLimit

\* getStats has just returned or thrown
StatsCompleted == "reply" \in DOMAIN last

IsRAGServiceError(outcome) == outcome.kind = "throw" /\ outcome.name = "RAGServiceError"

\* C31: getStats either returns the service's statistics or throws a
\* RAGServiceError: a disabled client throws before any network request, a
\* non-2xx response throws with the status code, any other failure is wrapped;
\* it never returns a default value and never changes the cached health state.
C31_StatsOrServiceError ==
    StatsCompleted =>
        /\ last.cache = <<healthyCache, lastHealthCheck>>
        /\ IF ~config.enabled
           THEN IsRAGServiceError(last.outcome) /\ last.fetches = <<>>
           ELSE /\ last.fetches = <<"/stats">>
                /\ last.reply.kind = "ok" =>
                       last.outcome.kind = "stats" /\ last.outcome.stats = last.reply.stats
                /\ last.reply.kind = "http_error" =>
                       /\ IsRAGServiceError(last.outcome)
                       /\ last.outcome.statusCode = <<last.reply.status>>
                /\ last.reply.kind \in {"network", "bad_json"} =>
                       /\ IsRAGServiceError(last.outcome)
                       /\ last.outcome.statusCode = Absent
                       /\ last.outcome.originalError # Absent

\* getStats answered with a 503 while the health cache holds a healthy result
\* of an earlier probe
C31_Witness ==
    /\ StatsCompleted
    /\ last.reply.kind = "http_error" /\ last.reply.status = 503
    /\ last.outcome.statusCode = <<503>>
    /\ healthyCache = "true" /\ now > 0

\* the middleware answered a full result on its filtered or fallback path
AnsweredWithRest ==
    /\ "handlerResponse" \in DOMAIN last
    /\ ~Bypasses(last.handlerResponse)
    /\ last.response.kind = "ok"

\* C32: the middleware changes only the tools field: every other field of
\* the handler's response (pagination cursor, metadata) is returned unchanged
\* on the filtered path and on the fallback path.
C32_OnlyToolsChanged ==
    AnsweredWithRest =>
        /\ DOMAIN last.response = DOMAIN last.handlerResponse
        /\ \A f \in DOMAIN last.handlerResponse \ {"tools"} :
               last.response[f] = last.handlerResponse[f]

\* selectTools threw, the middleware fell back to a shorter list, and the
\* handler's response had a cursor and metadata
C32_Witness ==
    /\ AnsweredWithRest
    /\ last.sel.kind = "throw"
    /\ Len(last.response.tools) < Len(last.handlerResponse.tools)
    /\ last.handlerResponse.nextCursor # Absent
    /\ last.handlerResponse.meta # Absent

====
